---- MODULE Spec2Model ----
(***************************************************************************)
(* A model of mesh_transformer/transformer_shard.py: the collective        *)
(* primitives, the sharded loss, the relative-position bucketing, the      *)
(* construction-time checks and the train/eval/init orchestration of       *)
(* CausalTransformer.                                                      *)
(*                                                                         *)
(* Numbers.  A tensor leaf is a record [dtype, val] whose val is an        *)
(* integer multiple of one unit.  float32 is exact on the magnitudes the   *)
(* model reaches (below 2^24); bfloat16 keeps 8 significant bits, so every *)
(* bfloat16 result is rounded to 8 significant bits, ties to even.         *)
(***************************************************************************)
EXTENDS Integers, Sequences, FiniteSets, TLC

VARIABLES
    \* ---- CausalTransformer (train / eval orchestration) ----
    state,        \* self.state as held on each data-parallel replica and shard
    live,         \* TRUE while the buffers self.state refers to are not deleted
    donates,      \* whether the backend implements buffer donation
    pc,           \* position inside CausalTransformer.train
    grad,         \* the scan carry, then the averaged gradient
    mb,           \* number of micro-batches the scan has consumed
    mixed,        \* TRUE if a micro-batch of this train call differed between replicas
    updates,      \* result of optimizer.update
    new_opt_state,\* result of optimizer.update
    phases,       \* log of the phases the running / last train step went through
    pre_state,    \* self.state when the last train call was entered
    last_op,      \* outcome of the last train / eval call
    eval_last,    \* the last eval: batch, loss, and the loss of the eval before it
    \* ---- construction (CausalTransformer.__init__ up to the first state) ----
    config,       \* the config dictionary
    mesh_mp,      \* thread_resources.env.shape['mp']
    cpc,          \* position inside the construction
    layer_i,      \* number of TransformerLayerShard objects constructed
    norm,         \* the last getnorm call: its argument and what it returned
    error,        \* source line of the statement that raised, 0 if none
    forward_ran,  \* TRUE once transformer.loss has been called
    \* ---- ProjectionShard.loss ----
    logits,       \* the full logit vector; shard s holds its slice
    targets,      \* the target token id
    n_shards,     \* size of the "shard" axis in the loss computation
    loss_out,     \* the loss each shard returns
    \* ---- g_psum ----
    x_in,         \* per-shard input of g_psum
    g_in,         \* per-shard upstream gradient
    fwd_out,      \* per-shard result of the forward pass
    bwd_out,      \* per-shard result of the backward pass
    \* ---- RelativePositionEmbs ----
    relative_position, \* entries of memory_position - context_position
    rp_bucket,         \* their buckets
    \* ---- the scan over micro-batches, run in two orders ----
    scan_batches, \* the micro-batches
    scan_order,   \* a permutation of their indices
    scan_i,       \* micro-batches consumed
    grad_a,       \* carry when the micro-batches are taken in the given order
    grad_b        \* carry when they are taken in the permuted order

trainVars == <<state, live, donates, pc, grad, mb, mixed, updates, new_opt_state,
               phases, pre_state, last_op, eval_last>>

constructVars == <<config, mesh_mp, cpc, layer_i, norm, error, forward_ran>>
lossVars == <<logits, targets, n_shards, loss_out>>
psumVars == <<x_in, g_in, fwd_out, bwd_out>>
bucketVars == <<relative_position, rp_bucket>>
scanVars == <<scan_batches, scan_order, scan_i, grad_a, grad_b>>

vars == <<trainVars, constructVars, lossVars, psumVars, bucketVars, scanVars>>

\* an absent tree, record or value
None == <<>>

-----------------------------------------------------------------------------
(* Bounds of the model *)
NumShards == 2        \* size of the "shard" (mp) axis
DP == 2               \* size of the "batch" (dp) axis
NumMicro == 2         \* micro-batches per train call (leading axis of the batch)
MaxStep == 2          \* train calls per run
MaxTokenId == 603     \* largest token id appearing in a batch
MaxDim == 4           \* configs have n_heads, d_model, n_vocab in 1..MaxDim
MaxLayers == 2        \* configs have layers in 0..MaxLayers
MaxVocab == 4         \* the loss is computed on vocabularies of 1..MaxVocab entries
MaxLogit == 1         \* logits range over -MaxLogit..MaxLogit
MaxVal == 1           \* g_psum inputs and gradients range over -MaxVal..MaxVal
MaxRelPos == 135      \* keys lie up to MaxRelPos positions before the query
MaxLead == 2          \* and up to MaxLead positions after it
ScanLen == 3          \* micro-batches of the scan that is run in two orders

Shards == 1..NumShards
Replicas == 1..DP
Tokens == {0, MaxTokenId}
\* <<context token, target token>>: the two tokens of a sample differ
Samples == {<<c, t>> \in Tokens \X Tokens : c # t}

-----------------------------------------------------------------------------
(* Arithmetic helpers *)
Abs(x) == IF x < 0 THEN -x ELSE x

RECURSIVE SumOver(_, _)
SumOver(f, S) ==
    IF S = {} THEN 0
    ELSE LET x == CHOOSE y \in S : TRUE IN f[x] + SumOver(f, S \ {x})

RECURSIVE Pow2(_)
Pow2(k) == IF k <= 0 THEN 1 ELSE 2 * Pow2(k - 1)

\* least e >= 0 with a < 256 * 2^e, for a >= 0
RECURSIVE Exponent8(_)
Exponent8(a) == IF a < 256 THEN 0 ELSE 1 + Exponent8(a \div 2)

\* round an integer to 8 significant bits, ties to even (bfloat16 precision)
RoundBF16(v) ==
    LET a == Abs(v)
        e == Exponent8(a)
        u == Pow2(e)
        q == a \div u
        r == a % u
        up == (2 * r > u) \/ (2 * r = u /\ q % 2 = 1)
        m == (IF up THEN q + 1 ELSE q) * u
    IN IF v < 0 THEN -m ELSE m

F32 == "float32"
BF16 == "bfloat16"
Tensor(d, v) == [dtype |-> d, val |-> v]

\* result dtype of a binary operation (jax type promotion on these two dtypes)
Promote(a, b) == IF a = F32 \/ b = F32 THEN F32 ELSE BF16
Rounded(d, v) == IF d = BF16 THEN RoundBF16(v) ELSE v
Add(a, b) ==
    LET d == Promote(a.dtype, b.dtype) IN Tensor(d, Rounded(d, a.val + b.val))

\* to_f32 / to_bf16 on one leaf; a tree is a function from shards to leaves
to_f32_leaf(x) == IF x.dtype = BF16 THEN Tensor(F32, x.val) ELSE x
to_bf16_leaf(x) == IF x.dtype = F32 THEN Tensor(BF16, RoundBF16(x.val)) ELSE x
to_f32(t) == [s \in DOMAIN t |-> to_f32_leaf(t[s])]
to_bf16(t) == [s \in DOMAIN t |-> to_bf16_leaf(t[s])]

-----------------------------------------------------------------------------
(* The model function and the optimizer.  The transformer forward pass and  *)
(* the optax optimizer are the collaborators of the orchestration; here a   *)
(* one-leaf-per-shard stand-in: the output is the cross-shard sum of the    *)
(* shard parameters plus the context token, the loss is the squared error   *)
(* against the target token, the optimizer is SGD with an update counter.   *)
LrDiv == 8

\* hk.transform(train_loss).init: the leaf depends on the shard's key only
param_init(key) == Tensor(F32, 301 + key)

optimizer_init(params) == 0

optimizer_update(g, opt_state, params) ==
    [updates |-> Tensor(g.dtype, Rounded(g.dtype, -(g.val \div LrDiv))),
     opt_state |-> opt_state + 1]

apply_updates(p, u) == Tensor(p.dtype, Rounded(p.dtype, p.val + u.val))

\* one replica's forward pass on parameters P (a tree over the shards)
forward(P, ctx) == SumOver([s \in DOMAIN P |-> P[s].val], DOMAIN P) + ctx

train_loss_fn(P, ctx, tgt) ==
    LET d == forward(P, ctx) - tgt IN Tensor(BF16, RoundBF16(d * d))

value_and_grad(P, ctx, tgt) ==
    [value |-> train_loss_fn(P, ctx, tgt),
     grad |-> [s \in DOMAIN P |-> Tensor(BF16, RoundBF16(2 * (forward(P, ctx) - tgt)))]]

params_of(st) == [s \in DOMAIN st |-> st[s].params]

\* a microbatch that returns the new gradient instead of adding it to the carry
microbatch_dropping_carry(old_grad, batch, st) ==
    LET vg == value_and_grad(to_bf16(params_of(st)), batch[1], batch[2])
    IN [new_grad |-> [s \in DOMAIN old_grad |-> vg.grad[s]],
        value |-> vg.value]

\* train.microbatch on one replica: st is the replica's state, batch = <<ctx, tgt>>
microbatch(old_grad, batch, st) ==
    LET vg == value_and_grad(to_bf16(params_of(st)), batch[1], batch[2])
    IN [new_grad |-> [s \in DOMAIN old_grad |-> Add(old_grad[s], vg.grad[s])],
        value |-> vg.value]

\* the initial carry of the scan
zero_grad(st) == [s \in DOMAIN st |-> Tensor(BF16, 0)]

\* a train step that leaves out the cross-replica mean
pmean_batch_missing(g) == g

\* jax.lax.pmean(grad, "batch"): g maps each replica to its gradient tree
pmean_batch(g) ==
    [r \in DOMAIN g |->
        [s \in DOMAIN g[r] |->
            LET d == g[r][s].dtype
            IN Tensor(d, Rounded(d,
                 SumOver([q \in DOMAIN g |-> g[q][s].val], DOMAIN g)
                     \div Cardinality(DOMAIN g)))]]

\* a train step that forgets to advance the step counter
train_result_no_step(st, upd, opt) ==
    [params |-> apply_updates(st.params, upd),
     step |-> st.step,
     opt_state |-> opt]

\* the state train returns on one (replica, shard), lines 399-403
train_result(st, upd, opt) ==
    [params |-> apply_updates(st.params, upd),
     step |-> st.step + 1,
     opt_state |-> opt]

\* init on one shard; x (the example batch) only fixes shapes
init(key, x) ==
    LET params == param_init(key)
    IN [params |-> to_f32_leaf(params), step |-> 0, opt_state |-> optimizer_init(params)]

\* key.take(mp): one key per shard
keys == [s \in Shards |-> s]

init_xmap(k, x) == [r \in DOMAIN x |-> [s \in DOMAIN k |-> init(k[s], x[r])]]

\* eval on one replica
eval(st, ctx, tgt) == train_loss_fn(to_bf16(params_of(st)), ctx, tgt)

\* an eval that stores the parameters it cast for the computation back into self.state
CausalTransformer_eval_storing_cast(self_state, sample) ==
    [loss |-> SumOver([r \in Replicas |->
                         to_f32_leaf(eval(self_state[r], sample[r][1], sample[r][2])).val],
                      Replicas) \div DP,
     state |-> [r \in Replicas |-> [s \in Shards |->
                  [self_state[r][s] EXCEPT !.params = to_bf16_leaf(@)]]]]

\* CausalTransformer.eval: the value returned and self.state afterwards
CausalTransformer_eval(self_state, sample) ==
    [loss |-> SumOver([r \in Replicas |->
                         to_f32_leaf(eval(self_state[r], sample[r][1], sample[r][2])).val],
                      Replicas) \div DP,
     state |-> self_state]

EvalBatches == [Replicas -> Samples]

-----------------------------------------------------------------------------
(* The parts of the state a specification does not use stay at these values *)
notTrainVars == <<constructVars, lossVars, psumVars, bucketVars, scanVars>>

TrainOffButState ==
    /\ live = FALSE /\ donates = FALSE /\ pc = "off"
    /\ grad = None /\ mb = 0 /\ mixed = FALSE /\ updates = None
    /\ new_opt_state = None /\ phases = <<>> /\ pre_state = None
    /\ last_op = "off" /\ eval_last = None

TrainOff ==
    /\ state = None /\ live = FALSE /\ donates = FALSE /\ pc = "off"
    /\ grad = None /\ mb = 0 /\ mixed = FALSE /\ updates = None
    /\ new_opt_state = None /\ phases = <<>> /\ pre_state = None
    /\ last_op = "off" /\ eval_last = None

ConstructOff ==
    /\ config = None /\ mesh_mp = 0 /\ cpc = "off" /\ layer_i = 0
    /\ norm = None /\ error = 0 /\ forward_ran = FALSE

LossOff == logits = None /\ targets = 0 /\ n_shards = 0 /\ loss_out = None

PsumOff == x_in = None /\ g_in = None /\ fwd_out = None /\ bwd_out = None

BucketOff == relative_position = None /\ rp_bucket = None

ScanOff ==
    /\ scan_batches = None /\ scan_order = None /\ scan_i = 0
    /\ grad_a = None /\ grad_b = None

-----------------------------------------------------------------------------
(* CausalTransformer.train, statement by statement *)

InProgress == {"trace", "scan", "update", "cast", "apply"}

NoStep ==
    /\ pc = "idle"
    /\ grad = None /\ mb = 0 /\ mixed = FALSE
    /\ updates = None /\ new_opt_state = None

\* line 474 is entered: self.state is handed to train_xmap
TrainCall ==
    /\ UNCHANGED notTrainVars
    /\ pc = "idle" /\ live
    /\ state[1][1].step < MaxStep
    /\ pc' = "trace"
    /\ pre_state' = state
    /\ phases' = <<>>
    /\ last_op' = "train_running"
    /\ eval_last' = None
    /\ mixed' = FALSE
    /\ UNCHANGED <<state, live, donates, grad, mb, updates, new_opt_state>>

\* the compiled computation is launched: donate_argnums=(0,) gives the buffers away
Dispatch ==
    /\ UNCHANGED notTrainVars
    /\ pc = "trace"
    /\ pc' = "scan"
    /\ live' = ~donates
    /\ grad' = [r \in Replicas |-> zero_grad(state[r])]
    /\ mb' = 0
    /\ mixed' = FALSE
    /\ UNCHANGED <<state, donates, updates, new_opt_state, phases, pre_state,
                   last_op, eval_last>>

\* one iteration of jax.lax.scan(microbatch, ...); b is this micro-batch's slice
Microbatch ==
    /\ UNCHANGED notTrainVars
    /\ pc = "scan" /\ mb < NumMicro
    /\ \E b \in [Replicas -> Samples] :
          LET res == [r \in Replicas |-> microbatch(grad[r], b[r], state[r])]
          IN /\ grad' = [r \in Replicas |-> res[r].new_grad]
             /\ mixed' = (mixed \/ \E r1, r2 \in Replicas : b[r1] # b[r2])
    /\ mb' = mb + 1
    /\ phases' = Append(phases, "microbatch")
    /\ UNCHANGED <<state, live, donates, pc, updates, new_opt_state, pre_state,
                   last_op, eval_last>>

\* line 396
Pmean ==
    /\ UNCHANGED notTrainVars
    /\ pc = "scan" /\ mb = NumMicro
    /\ grad' = pmean_batch(grad)
    /\ pc' = "update"
    /\ phases' = Append(phases, "pmean")
    /\ UNCHANGED <<state, live, donates, mb, mixed, updates, new_opt_state,
                   pre_state, last_op, eval_last>>

\* line 397
OptimizerUpdate ==
    /\ UNCHANGED notTrainVars
    /\ pc = "update"
    /\ LET res == [r \in Replicas |-> [s \in Shards |->
                      optimizer_update(grad[r][s], state[r][s].opt_state,
                                       state[r][s].params)]]
       IN /\ updates' = [r \in Replicas |-> [s \in Shards |-> res[r][s].updates]]
          /\ new_opt_state' = [r \in Replicas |-> [s \in Shards |-> res[r][s].opt_state]]
    /\ pc' = "cast"
    /\ phases' = Append(phases, "optimizer.update")
    /\ UNCHANGED <<state, live, donates, grad, mb, mixed, pre_state, last_op,
                   eval_last>>

\* line 400, to_f32(updates)
CastUpdates ==
    /\ UNCHANGED notTrainVars
    /\ pc = "cast"
    /\ updates' = [r \in Replicas |-> to_f32(updates[r])]
    /\ pc' = "apply"
    /\ phases' = Append(phases, "to_f32(updates)")
    /\ UNCHANGED <<state, live, donates, grad, mb, mixed, new_opt_state,
                   pre_state, last_op, eval_last>>

\* lines 399-403 and the assignment to self.state at line 474
Commit ==
    /\ UNCHANGED notTrainVars
    /\ pc = "apply"
    /\ state' = [r \in Replicas |-> [s \in Shards |->
                    train_result(state[r][s], updates[r][s], new_opt_state[r][s])]]
    /\ live' = TRUE
    /\ pc' = "idle"
    /\ grad' = None /\ mb' = 0
    /\ updates' = None /\ new_opt_state' = None
    /\ phases' = Append(phases, "apply_updates")
    /\ last_op' = "train_ok"
    /\ UNCHANGED <<donates, mixed, pre_state, eval_last>>

\* train_xmap raises: the assignment at line 474 does not happen
TrainFails ==
    /\ UNCHANGED notTrainVars
    /\ pc \in InProgress
    /\ pc' = "idle"
    /\ grad' = None /\ mb' = 0
    /\ updates' = None /\ new_opt_state' = None
    /\ last_op' = "train_failed"
    /\ UNCHANGED <<state, live, donates, mixed, phases, pre_state, eval_last>>

\* line 484
Eval ==
    /\ UNCHANGED notTrainVars
    /\ pc = "idle" /\ live
    /\ \E sample \in EvalBatches :
          LET res == CausalTransformer_eval(state, sample)
          IN /\ state' = res.state
             /\ eval_last' =
                 <<[batch |-> sample, loss |-> res.loss, before |-> state,
                    prev |-> IF eval_last # None /\ eval_last[1].batch = sample
                             THEN <<eval_last[1].loss>> ELSE None]>>
    /\ last_op' = "eval_ok"
    /\ UNCHANGED <<live, donates, pc, grad, mb, mixed, updates, new_opt_state,
                   phases, pre_state>>

\* a call on a state whose buffers were donated raises at once
CallOnDeleted ==
    /\ UNCHANGED notTrainVars
    /\ pc = "idle" /\ ~live
    /\ last_op # "deleted_buffer_error"
    /\ last_op' = "deleted_buffer_error"
    /\ UNCHANGED <<state, live, donates, pc, grad, mb, mixed, updates,
                   new_opt_state, phases, pre_state, eval_last>>

InitTrain ==
    /\ \E x \in [Replicas -> Tokens] : state = init_xmap(keys, x)
    /\ live = TRUE
    /\ donates \in BOOLEAN
    /\ NoStep
    /\ phases = <<>>
    /\ pre_state = None
    /\ last_op = "init"
    /\ eval_last = None
    /\ ConstructOff /\ LossOff /\ PsumOff /\ BucketOff /\ ScanOff

NextTrain ==
    \/ TrainCall \/ Dispatch \/ Microbatch \/ Pmean \/ OptimizerUpdate
    \/ CastUpdates \/ Commit \/ TrainFails \/ Eval \/ CallOnDeleted

SpecTrain == InitTrain /\ [][NextTrain]_vars

-----------------------------------------------------------------------------
(* Properties of the orchestration, checked under SpecTrain *)

\* C1: a train step that fails leaves the orchestrator's TrainingState exactly
\* and usably its pre-step value: same params, opt_state and step, and buffers
\* that have not been given away.
C1_FailedTrainKeepsUsableState ==
    last_op = "train_failed" => (state = pre_state /\ live)

\* C2: an eval leaves params, opt_state and step as they were, and an eval that
\* directly follows an eval of the same batch returns the same loss.
C2_EvalLeavesState ==
    last_op = "eval_ok" =>
        /\ state = eval_last[1].before
        /\ eval_last[1].prev # None => eval_last[1].prev[1] = eval_last[1].loss

C2_Witness ==
    /\ last_op = "eval_ok"
    /\ eval_last[1].prev # None
    /\ state[1][1].step >= 1

\* C4: for each shard, every data-parallel replica holds the same params,
\* opt_state and step, after init and after every train step.
C4_ReplicatedAcrossBatchAxis ==
    \A s \in Shards : \A r1, r2 \in Replicas : state[r1][s] = state[r2][s]

\* two train steps were committed, the last on batches that differed between replicas
C4_Witness ==
    /\ last_op = "train_ok"
    /\ state[1][1].step = 2
    /\ mixed

ExpectedPhases ==
    [i \in 1..NumMicro |-> "microbatch"] \o
        <<"pmean", "optimizer.update", "to_f32(updates)", "apply_updates">>

-----------------------------------------------------------------------------
(* Construction: getnorm, the layer constructors and CausalTransformer.__init__ *)

ReplicatedLayerNorm(offset) == [cls |-> "ReplicatedLayerNorm", offset |-> offset]
RMSNorm(offset, elementwise) ==
    [cls |-> "RMSNorm", offset |-> offset, elementwise |-> elementwise]
\* raise Exception("Not implemented")
NotImplemented == [cls |-> "Exception", line |-> 134]

\* a getnorm that falls back to the default norm for a name it does not know
getnorm_with_default(type) ==
    IF type = "layernorm-nobias" THEN ReplicatedLayerNorm(FALSE)
    ELSE IF type = "rmsnorm" THEN RMSNorm(FALSE, TRUE)
    ELSE IF type = "scalenorm" THEN RMSNorm(FALSE, FALSE)
    ELSE IF type = "rmsnorm-bias" THEN RMSNorm(TRUE, TRUE)
    ELSE IF type = "scalenorm-bias" THEN RMSNorm(TRUE, FALSE)
    ELSE ReplicatedLayerNorm(TRUE)

getnorm(type) ==
    IF type = "layernorm" THEN ReplicatedLayerNorm(TRUE)
    ELSE IF type = "layernorm-nobias" THEN ReplicatedLayerNorm(FALSE)
    ELSE IF type = "rmsnorm" THEN RMSNorm(FALSE, TRUE)
    ELSE IF type = "scalenorm" THEN RMSNorm(FALSE, FALSE)
    ELSE IF type = "rmsnorm-bias" THEN RMSNorm(TRUE, TRUE)
    ELSE IF type = "scalenorm-bias" THEN RMSNorm(TRUE, FALSE)
    ELSE NotImplemented

\* The constructors return the source line of the statement that raises, 0 if none.
EmbeddingShard_init(cfg) ==
    IF cfg.n_vocab % cfg.cores_per_replica # 0 THEN 192 ELSE 0

\* a layer constructor without the heads-per-shard assertion
TransformerLayerShard_init_no_heads_assert(cfg) ==
    IF getnorm(cfg.norm) = NotImplemented THEN 134
    ELSE IF cfg.d_model % cfg.n_heads # 0 THEN 223
    ELSE 0

TransformerLayerShard_init(cfg) ==
    IF getnorm(cfg.norm) = NotImplemented THEN 134
    ELSE IF cfg.d_model % cfg.n_heads # 0 THEN 223
    ELSE IF cfg.n_heads % cfg.cores_per_replica # 0 THEN 224
    ELSE 0

ProjectionShard_init(cfg) ==
    IF getnorm(cfg.norm) = NotImplemented THEN 134
    ELSE IF cfg.n_vocab % cfg.cores_per_replica # 0 THEN 283
    ELSE 0

NormTypes ==
    {"layernorm", "layernorm-nobias", "rmsnorm", "scalenorm", "rmsnorm-bias",
     "scalenorm-bias", "layernorm-no-bias", "batchnorm"}

Configs ==
    [n_vocab : 1..MaxDim, d_model : 1..MaxDim, n_heads : 1..MaxDim,
     cores_per_replica : 1..NumShards, layers : 0..MaxLayers, norm : NormTypes]

notConstructVars ==
    <<live, donates, pc, grad, mb, mixed, updates, new_opt_state, phases,
      pre_state, last_op, eval_last, lossVars, psumVars, bucketVars, scanVars>>

Raise(line) == cpc' = "raised" /\ error' = line

\* line 443
MeshAssert ==
    /\ cpc = "start"
    /\ IF mesh_mp # config.cores_per_replica
       THEN Raise(443)
       ELSE cpc' = "embed" /\ error' = error
    /\ UNCHANGED <<state, config, mesh_mp, layer_i, norm, forward_ran, notConstructVars>>

\* line 336, reached through init_xmap -> init -> train_loss -> CausalTransformerShard
EmbeddingInit ==
    /\ cpc = "embed"
    /\ LET e == EmbeddingShard_init(config)
       IN IF e # 0 THEN Raise(e) ELSE cpc' = "init_scale" /\ error' = error
    /\ UNCHANGED <<state, config, mesh_mp, layer_i, norm, forward_ran, notConstructVars>>

\* line 338: 2. / layer_count
InitScale ==
    /\ cpc = "init_scale"
    /\ IF config.layers = 0 THEN Raise(338) ELSE cpc' = "layers" /\ error' = error
    /\ UNCHANGED <<state, config, mesh_mp, layer_i, norm, forward_ran, notConstructVars>>

\* lines 340-341, one iteration
LayerInit ==
    /\ cpc = "layers" /\ layer_i < config.layers
    /\ norm' = [type |-> config.norm, result |-> getnorm(config.norm)]
    /\ LET e == TransformerLayerShard_init(config)
       IN IF e # 0
          THEN Raise(e) /\ layer_i' = layer_i
          ELSE cpc' = cpc /\ error' = error /\ layer_i' = layer_i + 1
    /\ UNCHANGED <<state, config, mesh_mp, forward_ran, notConstructVars>>

\* line 343
ProjectionInit ==
    /\ cpc = "layers" /\ layer_i = config.layers
    /\ norm' = [type |-> config.norm, result |-> getnorm(config.norm)]
    /\ LET e == ProjectionShard_init(config)
       IN IF e # 0 THEN Raise(e) ELSE cpc' = "constructed" /\ error' = error
    /\ UNCHANGED <<state, config, mesh_mp, layer_i, forward_ran, notConstructVars>>

\* line 408: transformer.loss(x, y) runs the forward graph to create the parameters
ForwardInit ==
    /\ cpc = "constructed"
    /\ forward_ran' = TRUE
    /\ cpc' = "forward"
    /\ UNCHANGED <<state, config, mesh_mp, layer_i, norm, error, notConstructVars>>

\* line 459: self.state = self.init_xmap(...)
StateAssigned ==
    /\ cpc = "forward"
    /\ \E x \in [Replicas -> Tokens] :
          state' = init_xmap([s \in 1..config.cores_per_replica |-> s], x)
    /\ cpc' = "done"
    /\ UNCHANGED <<config, mesh_mp, layer_i, norm, error, forward_ran, notConstructVars>>

InitConstruct ==
    /\ config \in Configs
    /\ mesh_mp \in 1..NumShards
    /\ cpc = "start" /\ layer_i = 0 /\ norm = None /\ error = 0
    /\ forward_ran = FALSE
    /\ TrainOff /\ LossOff /\ PsumOff /\ BucketOff /\ ScanOff

NextConstruct ==
    \/ MeshAssert \/ EmbeddingInit \/ InitScale \/ LayerInit \/ ProjectionInit
    \/ ForwardInit \/ StateAssigned

SpecConstruct == InitConstruct /\ [][NextConstruct]_vars

ConfigValid(cfg) ==
    /\ cfg.d_model % cfg.n_heads = 0
    /\ cfg.n_heads % cfg.cores_per_replica = 0
    /\ cfg.n_vocab % cfg.cores_per_replica = 0
    /\ cfg.d_model % cfg.cores_per_replica = 0

DivisibilityAsserts == {192, 223, 224, 283}

\* C3: with a config that violates one of the four divisibility invariants the
\* construction raises before the forward graph runs and before a
\* TrainingState exists; with a config that satisfies all four, no
\* divisibility assertion raises, and nothing raises at all when moreover the
\* mesh matches, there is at least one layer and the norm name is known.
C3_ConfigCheckedBeforeCompute ==
    /\ (cpc \in {"constructed", "forward", "done"} \/ forward_ran \/ state # None)
          => ConfigValid(config)
    /\ (cpc = "raised" /\ error \in DivisibilityAsserts) => ~ConfigValid(config)
    /\ cpc = "raised" =>
          /\ ~forward_ran /\ state = None
          /\ \/ ~ConfigValid(config)
             \/ mesh_mp # config.cores_per_replica
             \/ config.layers = 0
             \/ getnorm(config.norm) = NotImplemented

\* a config with more shards than heads was refused by the assertion of line 224
C3_Witness ==
    /\ cpc = "raised" /\ error = 224
    /\ config.n_heads % config.cores_per_replica # 0
    /\ ~forward_ran /\ state = None

SpecNormNames ==
    {"layernorm", "layernorm-no-bias", "rmsnorm", "scalenorm", "rmsnorm-bias",
     "scalenorm-bias"}

\* C9 as stated: getnorm returns a normalization module for each of layernorm,
\* layernorm-no-bias, rmsnorm, scalenorm, rmsnorm-bias, scalenorm-bias and
\* raises for every other name.
C9_SixSpecNames ==
    norm # None =>
        (norm.type \in SpecNormNames <=> norm.result # NotImplemented)

NormTable ==
    [t \in {"layernorm", "layernorm-nobias", "rmsnorm", "scalenorm", "rmsnorm-bias",
            "scalenorm-bias"} |->
        CASE t = "layernorm" -> [cls |-> "ReplicatedLayerNorm", offset |-> TRUE]
          [] t = "layernorm-nobias" -> [cls |-> "ReplicatedLayerNorm", offset |-> FALSE]
          [] t = "rmsnorm" -> [cls |-> "RMSNorm", offset |-> FALSE, elementwise |-> TRUE]
          [] t = "scalenorm" -> [cls |-> "RMSNorm", offset |-> FALSE, elementwise |-> FALSE]
          [] t = "rmsnorm-bias" -> [cls |-> "RMSNorm", offset |-> TRUE, elementwise |-> TRUE]
          [] t = "scalenorm-bias" ->
                [cls |-> "RMSNorm", offset |-> TRUE, elementwise |-> FALSE]]

\* C9 amended: getnorm returns a normalization module for each of layernorm,
\* layernorm-nobias, rmsnorm, scalenorm, rmsnorm-bias, scalenorm-bias (layer
\* norm with / without offset, RMS norm with a per-feature or a single scale,
\* with / without offset, each name its own variant) and raises for every
\* other name.
C9_SixCodeNames ==
    norm # None =>
        IF norm.type \in DOMAIN NormTable
        THEN norm.result = NormTable[norm.type]
        ELSE norm.result = NotImplemented

C9_Witness ==
    /\ norm # None
    /\ norm.type = "scalenorm-bias"
    /\ norm.result = [cls |-> "RMSNorm", offset |-> TRUE, elementwise |-> FALSE]

-----------------------------------------------------------------------------
(* ProjectionShard.loss.  Vocabulary entries and shards are numbered from 0. *)
(* exp is modelled exactly as the exponential of base 2 on integer logits:   *)
(* Exp(x) is the numerator of 2^x over the denominator 2^ExpScale, and a     *)
(* loss log(sum_exp) - predicted is kept as the pair (sum_exp, predicted).   *)
ExpScale == 4 * MaxLogit
Exp(x) == Pow2(x + ExpScale)

RECURSIVE MaxOver(_, _)
MaxOver(f, S) ==
    LET x == CHOOSE y \in S : TRUE
    IN IF S = {x} THEN f[x]
       ELSE LET m == MaxOver(f, S \ {x}) IN IF f[x] > m THEN f[x] ELSE m

\* jax.nn.one_hot(idx, n): all zeros when idx is outside 0..n-1
one_hot(idx, n) == [j \in 0..(n - 1) |-> IF idx = j THEN 1 ELSE 0]

\* the slice of the logits that shard s computes, self.proj(x)
local_logits(lg, dim_per_shard, s) ==
    [j \in 0..(dim_per_shard - 1) |-> lg[s * dim_per_shard + j]]

\* lines 305-321 with the collectives written as sums / maxima over the shards;
\* start[s] is the shard_start_index shard s uses
loss_with_offsets(lg, tgt, S, start) ==
    LET V == Cardinality(DOMAIN lg)
        dim_per_shard == V \div S
        shard == 0..(S - 1)
        slot == 0..(dim_per_shard - 1)
        local == [s \in shard |-> local_logits(lg, dim_per_shard, s)]
        global_max == MaxOver([s \in shard |-> MaxOver(local[s], slot)], shard)
        shifted == [s \in shard |-> [j \in slot |-> local[s][j] - global_max]]
        gt_onehot == [s \in shard |-> one_hot(tgt - start[s], dim_per_shard)]
        predicted_local ==
            [s \in shard |-> SumOver([j \in slot |-> gt_onehot[s][j] * shifted[s][j]], slot)]
        predicted_logits == SumOver(predicted_local, shard)
        sum_exp_local ==
            [s \in shard |-> SumOver([j \in slot |-> Exp(shifted[s][j])], slot)]
        sum_exp_logits == SumOver(sum_exp_local, shard)
    IN [s \in shard |-> [sum_exp |-> sum_exp_logits, predicted |-> predicted_logits]]

\* a loss whose one-hot is taken against the target id without the shard offset
ProjectionShard_loss_no_offset(lg, tgt, S) ==
    loss_with_offsets(lg, tgt, S, [s \in 0..(S - 1) |-> 0])

ProjectionShard_loss(lg, tgt, S) ==
    loss_with_offsets(lg, tgt, S,
                      [s \in 0..(S - 1) |-> s * (Cardinality(DOMAIN lg) \div S)])

notLossVars == <<trainVars, constructVars, psumVars, bucketVars, scanVars>>

ComputeLoss ==
    /\ logits # None /\ loss_out = None
    /\ loss_out' = ProjectionShard_loss(logits, targets, n_shards)
    /\ UNCHANGED <<logits, targets, n_shards, notLossVars>>

InitLoss ==
    /\ \E V \in 1..MaxVocab :
          /\ logits \in [0..(V - 1) -> (-MaxLogit)..MaxLogit]
          /\ targets \in 0..(V - 1)
          /\ n_shards \in {S \in 1..V : V % S = 0}
    /\ loss_out = None
    /\ TrainOff /\ ConstructOff /\ PsumOff /\ BucketOff /\ ScanOff

NextLoss == ComputeLoss

SpecLoss == InitLoss /\ [][NextLoss]_vars

\* exp(loss) of a loss pair, scaled by 2^(2 * ExpScale): equal exactly when
\* the losses are equal
ExpOfLoss(l) == l.sum_exp * Pow2(ExpScale - l.predicted)

\* log(sum(exp(allLogits))) - allLogits[target] on the full logit vector
UnshardedCrossEntropy ==
    [sum_exp |-> SumOver([i \in DOMAIN logits |-> Exp(logits[i])], DOMAIN logits),
     predicted |-> logits[targets]]

\* the (shard, slot) pairs whose vocabulary entry is the target
TargetSlots ==
    LET d == Cardinality(DOMAIN logits) \div n_shards
    IN {<<s, j>> \in (0..(n_shards - 1)) \X (0..(d - 1)) :
           one_hot(targets - s * d, d)[j] = 1}

\* C5: the loss every shard returns equals the unsharded cross-entropy
\* log(sum(exp(allLogits))) - allLogits[target], the shards agree on it, and
\* the target id matches exactly one local slot of exactly one shard.
C5_ShardedLossIsCrossEntropy ==
    loss_out # None =>
        /\ \A s \in DOMAIN loss_out :
              ExpOfLoss(loss_out[s]) = ExpOfLoss(UnshardedCrossEntropy)
        /\ \A s, t \in DOMAIN loss_out : loss_out[s] = loss_out[t]
        /\ Cardinality(TargetSlots) = 1

\* two shards, the target on the second shard, the global maximum on the first
C5_Witness ==
    /\ loss_out # None
    /\ n_shards = 2 /\ Cardinality(DOMAIN logits) = 4
    /\ targets = 3
    /\ logits[0] = MaxLogit /\ logits[2] < MaxLogit /\ logits[3] < MaxLogit

-----------------------------------------------------------------------------
(* g_psum: psum in the forward pass, identity in the backward pass.  A       *)
(* per-shard value is a function from the shards to integers.                *)
g_psum(x) == [s \in DOMAIN x |-> SumOver(x, DOMAIN x)]

g_psum_fwd(x) == [out |-> g_psum(x), res |-> None]

\* a backward pass that reduces the gradient across the shards, as f_psum_bwd does
g_psum_bwd_reducing(res, g) == [s \in DOMAIN g |-> SumOver(g, DOMAIN g)]

g_psum_bwd(res, g) == g

notPsumVars == <<trainVars, constructVars, lossVars, bucketVars, scanVars>>

PsumForward ==
    /\ x_in # None /\ fwd_out = None
    /\ fwd_out' = g_psum_fwd(x_in)
    /\ UNCHANGED <<x_in, g_in, bwd_out, notPsumVars>>

PsumBackward ==
    /\ fwd_out # None /\ bwd_out = None
    /\ bwd_out' = g_psum_bwd(fwd_out.res, g_in)
    /\ UNCHANGED <<x_in, g_in, fwd_out, notPsumVars>>

InitPsum ==
    /\ \E S \in 1..NumShards :
          /\ x_in \in [1..S -> (-MaxVal)..MaxVal]
          /\ g_in \in [1..S -> (-MaxVal)..MaxVal]
    /\ fwd_out = None /\ bwd_out = None
    /\ TrainOff /\ ConstructOff /\ LossOff /\ BucketOff /\ ScanOff

NextPsum == PsumForward \/ PsumBackward

SpecPsum == InitPsum /\ [][NextPsum]_vars

\* the sum a single shard holding every input computes
RECURSIVE ReferenceSum(_, _)
ReferenceSum(x, n) == IF n = 0 THEN 0 ELSE ReferenceSum(x, n - 1) + x[n]

\* C6: the forward result on every shard is the sum of all shards' inputs, and
\* the backward pass hands each shard its upstream gradient unchanged, with no
\* reduction across the shards.
C6_ForwardSumBackwardIdentity ==
    /\ fwd_out # None =>
          \A s \in DOMAIN x_in : fwd_out.out[s] = ReferenceSum(x_in, Len(x_in))
    /\ bwd_out # None => \A s \in DOMAIN g_in : bwd_out[s] = g_in[s]

\* two shards with different inputs and different, non-zero upstream gradients
C6_Witness ==
    /\ bwd_out # None
    /\ Len(x_in) = 2 /\ x_in[1] # x_in[2]
    /\ g_in[1] # g_in[2] /\ g_in[1] # 0 /\ g_in[2] # 0

-----------------------------------------------------------------------------
(* RelativePositionEmbs._relative_position_bucket.  The logarithm is taken   *)
(* exactly: floor(E * log(x) / log(r)) is the largest k with x^E >= r^k,     *)
(* compared on natural numbers of arbitrary size (sequences of base-1000     *)
(* digits, least significant first).                                         *)
num_buckets == 32
max_distance == 128
\* 1 / np.finfo(np.float32).eps
EpsInv == 8388608
BigBase == 1000

RECURSIVE BigCarry(_, _, _)
BigCarry(c, i, carry) ==
    IF i > Len(c)
    THEN IF carry = 0 THEN <<>>
         ELSE <<carry % BigBase>> \o BigCarry(c, i, carry \div BigBase)
    ELSE LET t == c[i] + carry
         IN <<t % BigBase>> \o BigCarry(c, i + 1, t \div BigBase)

BigFromInt(v) == BigCarry(<<v>>, 1, 0)

BigMul(a, b) ==
    LET col(k) ==
            LET I == {i \in 1..Len(a) : k + 1 - i >= 1 /\ k + 1 - i <= Len(b)}
            IN SumOver([i \in I |-> a[i] * b[k + 1 - i]], I)
    IN BigCarry([k \in 1..(Len(a) + Len(b) - 1) |-> col(k)], 1, 0)

RECURSIVE BigPow(_, _)
BigPow(a, e) ==
    IF e = 0 THEN <<1>>
    ELSE IF e % 2 = 0 THEN LET h == BigPow(a, e \div 2) IN BigMul(h, h)
    ELSE BigMul(a, BigPow(a, e - 1))

RECURSIVE BigGeqFrom(_, _, _)
BigGeqFrom(a, b, i) ==
    IF i = 0 THEN TRUE
    ELSE IF a[i] # b[i] THEN a[i] > b[i]
    ELSE BigGeqFrom(a, b, i - 1)

BigGeq(a, b) ==
    IF Len(a) # Len(b) THEN Len(a) > Len(b) ELSE BigGeqFrom(a, b, Len(a))

max_exact == num_buckets \div 2

\* x = n / max_exact + eps is LogNumerator(n) / LogDenominator
LogNumerator(n) == n * EpsInv + max_exact
LogDenominator == max_exact * EpsInv

\* r^k * LogDenominator^E for r = max_distance / max_exact, E = num_buckets - max_exact
LogThreshold ==
    [k \in 0..num_buckets |->
        BigMul(BigPow(BigFromInt(max_distance \div max_exact), k),
               BigPow(BigFromInt(LogDenominator), num_buckets - max_exact))]

RECURSIVE FloorLogFrom(_, _)
FloorLogFrom(X, k) ==
    IF k < num_buckets /\ BigGeq(X, LogThreshold[k + 1])
    THEN FloorLogFrom(X, k + 1) ELSE k

\* (np.log(n / max_exact + eps) / np.log(max_distance / max_exact)
\*    * (num_buckets - max_exact)).astype(np.int32), for n >= max_exact
ScaledLog ==
    [n \in max_exact..MaxRelPos |->
        FloorLogFrom(BigPow(BigFromInt(LogNumerator(n)), num_buckets - max_exact), 0)]

Maximum(a, b) == IF a > b THEN a ELSE b
Minimum(a, b) == IF a < b THEN a ELSE b

\* a bucketing without the np.minimum(val_if_large, num_buckets - 1)
relative_position_bucket_unclamped(rel) ==
    LET n == Maximum(-rel, 0)
        is_small == n < max_exact
    IN 0 + (IF is_small THEN n ELSE max_exact + ScaledLog[n])

\* np.where selects val_if_large only where n >= max_exact
relative_position_bucket(rel) ==
    LET n == Maximum(-rel, 0)
        is_small == n < max_exact
    IN 0 + (IF is_small THEN n
            ELSE Minimum(max_exact + ScaledLog[n], num_buckets - 1))

\* lines 172-174: rp_bucket == iota(num_buckets), one row per bucket
rp_bucket_one_hot(b) == [i \in 0..(num_buckets - 1) |-> IF b = i THEN 1 ELSE 0]

notBucketVars == <<trainVars, constructVars, lossVars, psumVars, scanVars>>

\* line 164 on two entries of the relative_position matrix
Bucketize ==
    /\ relative_position # None /\ rp_bucket = None
    /\ rp_bucket' = [i \in DOMAIN relative_position |->
                        relative_position_bucket(relative_position[i])]
    /\ UNCHANGED <<relative_position, notBucketVars>>

RelPositions == (-MaxRelPos)..MaxLead

InitBucket ==
    /\ relative_position \in RelPositions \X RelPositions
    /\ rp_bucket = None
    /\ TrainOff /\ ConstructOff /\ LossOff /\ PsumOff /\ ScanOff

NextBucket == Bucketize

SpecBucket == InitBucket /\ [][NextBucket]_vars

DistanceOf(d) == Maximum(-d, 0)

\* C7: with n = max(-d, 0), 0 <= bucket <= 31, bucket = n whenever n < 16,
\* the bucket is non-decreasing in n, and every bucket selects exactly one row
\* of the 32-row bias table.
C7_BucketRangeExactMonotone ==
    rp_bucket # None =>
        /\ \A i \in DOMAIN rp_bucket :
              /\ 0 <= rp_bucket[i] /\ rp_bucket[i] <= 31
              /\ DistanceOf(relative_position[i]) < 16 =>
                    rp_bucket[i] = DistanceOf(relative_position[i])
              /\ SumOver(rp_bucket_one_hot(rp_bucket[i]), 0..31) = 1
        /\ \A i, j \in DOMAIN rp_bucket :
              DistanceOf(relative_position[i]) <= DistanceOf(relative_position[j])
                 => rp_bucket[i] <= rp_bucket[j]

\* an entry in the logarithmic regime next to one beyond max_distance
C7_Witness ==
    /\ rp_bucket # None
    /\ relative_position[1] = -19 /\ rp_bucket[1] = 17
    /\ relative_position[2] = -130 /\ rp_bucket[2] = 31

-----------------------------------------------------------------------------
(* The scan of train over the micro-batches, run on one replica in the given *)
(* order and in a permuted order, from the same state.                       *)
Orders(n) ==
    {f \in [1..n -> 1..n] : \A i, j \in 1..n : f[i] = f[j] => i = j}

notScanVars == <<trainVars, constructVars, lossVars, psumVars, bucketVars>>

ScanStep ==
    /\ scan_i < Len(scan_batches)
    /\ grad_a' = microbatch(grad_a, scan_batches[scan_i + 1], state[1]).new_grad
    /\ grad_b' = microbatch(grad_b, scan_batches[scan_order[scan_i + 1]],
                            state[1]).new_grad
    /\ scan_i' = scan_i + 1
    /\ UNCHANGED <<scan_batches, scan_order, notScanVars>>

InitScan ==
    /\ state = init_xmap(keys, <<0>>)
    /\ scan_batches \in [1..ScanLen -> Samples]
    /\ scan_order \in Orders(ScanLen)
    /\ scan_i = 0
    /\ grad_a = zero_grad(state[1])
    /\ grad_b = zero_grad(state[1])
    /\ TrainOffButState /\ ConstructOff /\ LossOff /\ PsumOff /\ BucketOff

NextScan == ScanStep

SpecScan == InitScan /\ [][NextScan]_vars

\* C8 as stated: the accumulated gradient is the same for every permutation
\* of the micro-batches.
C8_SameForEveryOrder ==
    scan_i = Len(scan_batches) => grad_a = grad_b

\* the gradient of micro-batch i on shard s, taken at the pre-step parameters
MicroGrad(i, s) ==
    value_and_grad(to_bf16(params_of(state[1])), scan_batches[i][1],
                   scan_batches[i][2]).grad[s].val

\* |acc - exact| <= gamma * sum |g_i| with gamma = k u / (1 - k u), u = 2^-8,
\* after k rounded additions
WithinRounding(acc, idx, s) ==
    LET k == Maximum(Cardinality(idx) - 1, 0)
        exact == SumOver([i \in idx |-> MicroGrad(i, s)], idx)
        total == SumOver([i \in idx |-> Abs(MicroGrad(i, s))], idx)
    IN Abs(acc[s].val - exact) * (256 - k) <= k * total

\* C8 amended: the accumulator starts at zero with the shape of params, every
\* micro-batch gradient is taken at the same pre-step params, and the
\* accumulated gradient is the same for every permutation of the micro-batches
\* up to the rounding of the bfloat16 additions: after the left fold over any
\* ordering it lies within k/(256 - k) * sum |grad_i| of the exact sum, where
\* k is the number of micro-batches minus one.
C8_OrderIndependentUpToRounding ==
    /\ scan_i = 0 =>
          /\ DOMAIN grad_a = DOMAIN params_of(state[1])
          /\ \A s \in DOMAIN grad_a : grad_a[s] = Tensor(BF16, 0)
    /\ state = init_xmap(keys, <<0>>)
    /\ \A s \in DOMAIN grad_a :
          /\ grad_a[s].dtype = BF16 /\ grad_b[s].dtype = BF16
          /\ WithinRounding(grad_a, 1..scan_i, s)
          /\ WithinRounding(grad_b, {scan_order[i] : i \in 1..scan_i}, s)

\* the two orders differ, and the two folds ended in different gradients
C8_Witness ==
    /\ scan_i = Len(scan_batches)
    /\ \E i \in 1..Len(scan_batches) : scan_order[i] # i
    /\ grad_a # grad_b

-----------------------------------------------------------------------------
(* All parts together *)
Init ==
    \/ InitTrain \/ InitConstruct \/ InitLoss \/ InitPsum \/ InitBucket \/ InitScan

Next ==
    \/ NextTrain \/ NextConstruct \/ NextLoss \/ NextPsum \/ NextBucket \/ NextScan

Spec == Init /\ [][Next]_vars

====
